---- MODULE Spec2Model ----
(***************************************************************************)
(* Model of ec2_termination.py: the backup-then-terminate run of main()    *)
(* against an EC2 provider whose calls may succeed or fail.                *)
(*                                                                         *)
(* The provider (boto3 client) is the environment: every call's outcome is *)
(* chosen nondeterministically from the outcomes the API can produce.      *)
(* Instance ids are 1..NumIds; image ids are 1, 2, ... in creation order.  *)
(***************************************************************************)
EXTENDS Integers, Sequences, FiniteSets, TLC

(* ---- bounds ---- *)
NumIds == 2
MaxEnvChanges == 1
MaxEntries == 2

Ids == 1..NumIds

(* ---- provider vocabulary ---- *)
\* Lifecycle states an instance matching the tags starts the run in: one
\* that list_instances drops and one that it keeps
InitLifecycle == {"pending", "running"}

\* EC2 instance lifecycle, as driven by actors other than this run
LifecycleNext(s) ==
    CASE s = "pending" -> {"running"}
      [] s = "running" -> {"stopping"}
      [] s = "stopping" -> {"stopped"}
      [] s = "stopped" -> {"pending"}
      [] OTHER -> {}

\* Outcomes of a create_image, create_tags or modify_instance_attribute
\* call: accepted, or rejected by the provider (botocore ClientError).
CallOutcomes == {"ok", "ClientError"}

\* An ami_id slot that holds no image id (Python None)
NoArtifact == 0

SeqsUpTo(S, n) == UNION {[1..k -> S] : k \in 0..n}

\* Responses of ec2_client.terminate_instances(InstanceIds=[id]): an
\* exception, or the list of state changes, which holds the current state of
\* the one requested instance or, unexpectedly, nothing.
TerminateStates == {"shutting-down", "running"}
TerminateResponses ==
    {[exc |-> "ClientError", TerminatingInstances |-> <<>>],
     [exc |-> "none", TerminatingInstances |-> <<>>]} \cup
    {[exc |-> "none", TerminatingInstances |-> <<st>>] : st \in TerminateStates}

(* ---- operator input ---- *)
\* Lines typed at the yes/no prompt, as sequences of characters
UserInputs == {<<"y">>, <<"Y">>, <<"n">>, <<>>, <<"y", "e", "s">>, <<" ", "y">>}

LowerChar(c) ==
    CASE c = "Y" -> "y"
      [] c = "N" -> "n"
      [] c = "E" -> "e"
      [] c = "S" -> "s"
      [] OTHER -> c

\* str.lower()
Lower(s) == [i \in DOMAIN s |-> LowerChar(s[i])]

VARIABLES
    provider,           \* provider-side state of every instance matching the tags
    next_image,         \* next image id the provider hands out
    pc,                 \* position of main()
    exception,          \* the exception that ended the run, or "none"
    raised_by,          \* the call that raised it, or "none"
    instances,          \* main(): instances
    initial_instances,  \* result of the first list_instances call
    protections,        \* main(): protections
    user_input,         \* main(): user_input
    prompts,            \* prompts shown to the operator so far
    cursor,             \* loop index of the running for-loop
    backup_results,     \* main(): backup_results / backup_instances(): results
    terminate_results,  \* main(): terminate_results / terminate_instances(): results
    calls,              \* mutating provider calls issued so far
    attempts,           \* per instance, the outcomes of its create_image calls
    tag_outcome,        \* per instance, the outcome of its create_tags call
    last_response,      \* response of the latest terminate_instances call
    displayed,          \* tables printed by display_data
    env_changes,        \* provider changes made by other actors
    listings            \* list_instances calls made so far

vars == <<provider, next_image, pc, exception, raised_by, instances, initial_instances,
          protections, user_input, prompts, cursor, backup_results,
          terminate_results, calls, attempts, tag_outcome, last_response,
          displayed, env_changes, listings>>

NoResponse == [exc |-> "not called", TerminatingInstances |-> <<>>]

\* Mutating provider calls issued, none yet
NoCalls ==
    [modify_instance_attribute |-> [i \in Ids |-> 0],
     create_image |-> [i \in Ids |-> 0],
     create_tags |-> 0,
     terminate_instances |-> [i \in Ids |-> 0]]

(* ---- display_data ---- *)
\* data[0] raises on an empty list and the bare except swallows it:
\* a table is printed only for a non-empty list.
display_data(data, table) == IF Len(data) > 0 THEN {table} ELSE {}

(* ---- list_instances ---- *)
\* The raw instance of a describe_instances page
RawInstance(prov, id) == [InstanceId |-> id, State |-> prov[id].state]

\* The provider's pages when it cuts the result after the first k and after
\* the first m instances (k = NumIds: a single page; m = NumIds: two pages).
ProviderPages(prov, k, m) ==
    LET page(lo, hi) == [j \in 1..(hi - lo + 1) |-> RawInstance(prov, lo + j - 1)]
    IN IF k = NumIds THEN <<page(1, NumIds)>>
       ELSE IF m = NumIds THEN <<page(1, k), page(k + 1, NumIds)>>
       ELSE <<page(1, k), page(k + 1, m), page(m + 1, NumIds)>>

\* Response to the describe_instances call for page number n;
\* NextToken = 0 stands for a response without the key.
describe_instances(pages, n) ==
    [Reservations |-> pages[n], NextToken |-> IF n < Len(pages) THEN n + 1 ELSE 0]

\* Only the first page is kept, whatever the continuation token
Paginate_first_page(pages, response, reservations) == reservations

RECURSIVE Paginate(_, _, _)
Paginate(pages, response, reservations) ==
    IF response.NextToken # 0
    THEN LET r == describe_instances(pages, response.NextToken)
         IN Paginate(pages, r, reservations \o r.Reservations)
    ELSE reservations

get_protections_status(prov, id) ==
    [termination |-> prov[id].termination, stop |-> prov[id].stop]

\* Every instance of the pages is kept, whatever its state
Selected_all(raw) == TRUE

\* list_instances(), line 118
Selected(raw) == raw.State \in {"running", "stopping", "stopped"}

InstanceRecord(prov, raw) ==
    LET protections_status == get_protections_status(prov, raw.InstanceId)
    IN [id |-> raw.InstanceId,
        state |-> raw.State,
        termination_protection |-> protections_status.termination,
        stop_protection |-> protections_status.stop]

list_instances(prov, pages) ==
    LET first == describe_instances(pages, 1)
        reservations == Paginate(pages, first, first.Reservations)
        kept == SelectSeq(reservations, Selected)
    IN [j \in 1..Len(kept) |-> InstanceRecord(prov, kept[j])]

\* Read calls of list_instances that can raise
ReadCalls == {"describe_instances", "describe_instance_attribute"}

\* A listing step that swallows a failed read call and goes on with the
\* list main() already holds
Listing_swallow(table, nextpc) ==
    \E k \in 0..NumIds, m \in 0..NumIds :
        LET pages == ProviderPages(provider, k, m) IN
        /\ k <= m
        /\ listings' = listings + 1
        /\ pc' = nextpc
        /\ \/ /\ instances' = list_instances(provider, pages)
              /\ displayed' = displayed \cup display_data(list_instances(provider, pages), table)
              /\ UNCHANGED <<exception, raised_by>>
           \/ \E call \in ReadCalls :
                  /\ exception' = "ClientError"
                  /\ raised_by' = call
                  /\ UNCHANGED <<instances, displayed>>

\* The listing step of main(): either every read call succeeds, or one of
\* them raises and the exception leaves list_instances and main().
Listing(table, nextpc) ==
    \E k \in 0..NumIds, m \in 0..NumIds :
        LET pages == ProviderPages(provider, k, m) IN
        /\ k <= m
        /\ listings' = listings + 1
        /\ \/ /\ instances' = list_instances(provider, pages)
              /\ displayed' = displayed \cup display_data(list_instances(provider, pages), table)
              /\ pc' = nextpc
              /\ UNCHANGED <<exception, raised_by>>
           \/ \E call \in ReadCalls :
                  /\ pc' = "crashed"
                  /\ exception' = "ClientError"
                  /\ raised_by' = call
                  /\ UNCHANGED <<instances, displayed>>

Init ==
    /\ provider \in [Ids -> [state : InitLifecycle, termination : BOOLEAN, stop : BOOLEAN]]
    /\ next_image = 1
    /\ pc = "start"
    /\ exception = "none"
    /\ raised_by = "none"
    /\ instances = <<>>
    /\ initial_instances = <<>>
    /\ protections = FALSE
    /\ user_input = <<>>
    /\ prompts = {}
    /\ cursor = 1
    /\ backup_results = <<>>
    /\ terminate_results = <<>>
    /\ calls = NoCalls
    /\ attempts = [i \in Ids |-> <<>>]
    /\ tag_outcome = [i \in Ids |-> "not called"]
    /\ last_response = NoResponse
    /\ displayed = {}
    /\ env_changes = 0
    /\ listings = 0

\* main(), lines 267-271
InitialListing ==
    /\ pc = "start"
    /\ Listing("instances", "listed")
    /\ initial_instances' = instances'
    /\ UNCHANGED <<provider, next_image, protections, user_input, prompts, cursor,
                   backup_results, terminate_results, calls, attempts, tag_outcome,
                   last_response, env_changes>>

\* The scan reports a protection for every non-empty listing
AnyProtection_nonempty(insts) == Len(insts) > 0

\* main(), lines 273-281 and 297-298: the scan for a protection flag
AnyProtection(insts) ==
    \E j \in 1..Len(insts) :
        insts[j].termination_protection \/ insts[j].stop_protection

\* The body of main() runs whatever the listing holds
HasInstances_always(insts) == TRUE

\* main(), line 273: if instances
HasInstances(insts) == insts # <<>>

\* The scan of an unprotected listing leads straight to backup_instances,
\* without the pause of line 301
CheckProtections_no_pause ==
    /\ pc = "listed"
    /\ IF ~HasInstances(instances)
       THEN /\ pc' = "done"
            /\ UNCHANGED <<protections, prompts, cursor, backup_results>>
       ELSE /\ protections' = AnyProtection(instances)
            /\ IF AnyProtection(instances)
               THEN /\ pc' = "prompt_yn"
                    /\ prompts' = prompts \cup {"yn"}
                    /\ UNCHANGED <<cursor, backup_results>>
               ELSE /\ pc' = "backup"
                    /\ cursor' = 1
                    /\ backup_results' = <<>>
                    /\ prompts' = prompts
    /\ UNCHANGED <<provider, next_image, exception, raised_by, instances, initial_instances,
                   user_input, terminate_results, calls,
                   attempts, tag_outcome, last_response, displayed, env_changes, listings>>

CheckProtections ==
    /\ pc = "listed"
    /\ IF ~HasInstances(instances)
       THEN /\ pc' = "done"
            /\ UNCHANGED <<protections, prompts>>
       ELSE /\ protections' = AnyProtection(instances)
            /\ IF AnyProtection(instances)
               THEN /\ pc' = "prompt_yn"
                    /\ prompts' = prompts \cup {"yn"}
               ELSE /\ pc' = "prompt_backup"
                    /\ prompts' = prompts \cup {"backup"}
    /\ UNCHANGED <<provider, next_image, exception, raised_by, instances, initial_instances,
                   user_input, cursor, backup_results, terminate_results, calls,
                   attempts, tag_outcome, last_response, displayed, env_changes, listings>>

\* An answer counts as affirmative when it starts with y or Y
Affirmed_startswith(input) == Len(input) > 0 /\ Lower(input)[1] = "y"

\* main(), line 284: user_input.lower() == 'y'
Affirmed(input) == Lower(input) = <<"y">>

\* main(), lines 283-284 and 294-296: the operator answers the yes/no prompt
AnswerProtectionPrompt ==
    /\ pc = "prompt_yn"
    /\ \E input \in UserInputs :
        /\ user_input' = input
        /\ IF Affirmed(input)
           THEN /\ pc' = "clearing"
                /\ cursor' = 1
           ELSE /\ pc' = "exited"
                /\ cursor' = cursor
    /\ UNCHANGED <<provider, next_image, exception, raised_by, instances, initial_instances,
                   protections, prompts, backup_results, terminate_results, calls,
                   attempts, tag_outcome, last_response, displayed, env_changes, listings>>

\* disable_instance_protections(ec2_client, id, True, True): m1 and m2 are the
\* outcomes of the two modify_instance_attribute calls. Returns the provider
\* state, the number of calls issued and the exception raised.
disable_instance_protections(prov, id, disable_termination, disable_stop, m1, m2) ==
    LET call1 == disable_termination
        prov1 == IF call1 /\ m1 = "ok"
                 THEN [prov EXCEPT ![id].termination = FALSE] ELSE prov
        raised1 == call1 /\ m1 # "ok"
        call2 == ~raised1 /\ disable_stop
        prov2 == IF call2 /\ m2 = "ok"
                 THEN [prov1 EXCEPT ![id].stop = FALSE] ELSE prov1
        raised2 == call2 /\ m2 # "ok"
    IN [provider |-> prov2,
        modify_calls |-> (IF call1 THEN 1 ELSE 0) + (IF call2 THEN 1 ELSE 0),
        raised |-> IF raised1 \/ raised2 THEN "ClientError" ELSE "none"]

\* main(), lines 285-289: one iteration of the clearing loop
DisableInstanceProtections ==
    /\ pc = "clearing"
    /\ cursor <= Len(instances)
    /\ \E m1 \in CallOutcomes, m2 \in CallOutcomes :
        LET id == instances[cursor].id
            r == disable_instance_protections(provider, id, TRUE, TRUE, m1, m2)
        IN /\ provider' = r.provider
           /\ calls' = [calls EXCEPT !.modify_instance_attribute[id] = @ + r.modify_calls]
           /\ IF r.raised = "none"
              THEN /\ cursor' = cursor + 1
                   /\ pc' = IF cursor = Len(instances) THEN "relist" ELSE "clearing"
                   /\ UNCHANGED <<exception, raised_by>>
              ELSE /\ cursor' = cursor
                   /\ pc' = "crashed"
                   /\ exception' = r.raised
                   /\ raised_by' = "modify_instance_attribute"
    /\ UNCHANGED <<next_image, instances, initial_instances, protections, user_input,
                   prompts, backup_results, terminate_results, attempts, tag_outcome,
                   last_response, displayed, env_changes, listings>>

\* A re-listing whose result is not assigned to instances
Relisting_discarded ==
    /\ pc = "relist"
    /\ listings' = listings + 1
    /\ instances' = instances
    /\ displayed' = displayed \cup display_data(instances, "instances (again)")
    /\ pc' = "prompt_backup"
    /\ prompts' = prompts \cup {"backup"}
    /\ UNCHANGED <<provider, next_image, exception, raised_by, initial_instances,
                   protections, user_input, cursor, backup_results, terminate_results,
                   calls, attempts, tag_outcome, last_response, env_changes>>

\* main(), lines 290-293, then the prompt of line 301
Relisting ==
    /\ pc = "relist"
    /\ Listing("instances (again)", "prompt_backup")
    /\ prompts' = IF pc' = "prompt_backup" THEN prompts \cup {"backup"} ELSE prompts
    /\ UNCHANGED <<provider, next_image, initial_instances, protections, user_input,
                   cursor, backup_results, terminate_results, calls, attempts, tag_outcome,
                   last_response, env_changes>>

\* main(), lines 301-305: the operator presses enter, backup_instances starts
PressEnterBackup ==
    /\ pc = "prompt_backup"
    /\ pc' = "backup"
    /\ cursor' = 1
    /\ backup_results' = <<>>
    /\ UNCHANGED <<provider, next_image, exception, raised_by, instances, initial_instances,
                   protections, user_input, prompts, terminate_results, calls,
                   attempts, tag_outcome, last_response, displayed, env_changes, listings>>

\* create_ami with the failure record of lines 173-179 returned, its ami_id
\* slot holding no image id
create_ami_returns_failure(instance, o1, o2, otag, image) ==
    LET retried == o1 = "ClientError"
        outcomes == IF retried THEN <<o1, o2>> ELSE <<o1>>
        final == outcomes[Len(outcomes)]
    IN IF final = "ok"
       THEN [create_image |-> outcomes,
             create_tags |-> <<otag>>,
             raised |-> IF otag = "ok" THEN "none" ELSE "ClientError",
             raised_by |-> IF otag = "ok" THEN "none" ELSE "create_tags",
             result |-> [instance_id |-> instance.id, ami_id |-> image,
                         backup_completed |-> TRUE]]
       ELSE [create_image |-> outcomes,
             create_tags |-> <<>>,
             raised |-> "none",
             raised_by |-> "none",
             result |-> [instance_id |-> instance.id, ami_id |-> NoArtifact,
                         backup_completed |-> FALSE]]

\* create_ami without the retry of lines 156-168
create_ami_no_retry(instance, o1, o2, otag, image) ==
    IF o1 = "ok"
    THEN [create_image |-> <<o1>>,
          create_tags |-> <<otag>>,
          raised |-> IF otag = "ok" THEN "none" ELSE "ClientError",
          raised_by |-> IF otag = "ok" THEN "none" ELSE "create_tags",
          result |-> [instance_id |-> instance.id, ami_id |-> image,
                      backup_completed |-> TRUE]]
    ELSE [create_image |-> <<o1>>,
          create_tags |-> <<>>,
          raised |-> "ClientError",
          raised_by |-> "create_image",
          result |-> [instance_id |-> instance.id, ami_id |-> image,
                      backup_completed |-> TRUE]]

\* create_ami(ec2_client, instance): o1 and o2 are the outcomes of the first
\* and the second create_image call, otag the outcome of create_tags, image
\* the ImageId the provider returns. Yields the calls issued and either the
\* returned outcome (raised = "none") or the exception that leaves create_ami.
create_ami(instance, o1, o2, otag, image) ==
    LET retried == o1 = "ClientError"
        outcomes == IF retried THEN <<o1, o2>> ELSE <<o1>>
        final == outcomes[Len(outcomes)]
        result == [instance_id |-> instance.id, ami_id |-> image, backup_completed |-> TRUE]
    IN IF final = "ok"
       THEN [create_image |-> outcomes,
             create_tags |-> <<otag>>,
             raised |-> IF otag = "ok" THEN "none" ELSE "ClientError",
             raised_by |-> IF otag = "ok" THEN "none" ELSE "create_tags",
             result |-> result]
       ELSE [create_image |-> outcomes,
             create_tags |-> <<>>,
             \* both calls rejected: line 176 reads the local ami_id, which
             \* no statement has assigned yet
             raised |-> "UnboundLocalError",
             raised_by |-> "create_ami",
             result |-> result]

\* backup_instances(), lines 211-213: one iteration of the loop
CreateAmi ==
    /\ pc = "backup"
    /\ cursor <= Len(instances)
    /\ \E o1 \in CallOutcomes, o2 \in CallOutcomes, otag \in CallOutcomes :
        LET instance == instances[cursor]
            r == create_ami(instance, o1, o2, otag, next_image)
            created == r.create_image[Len(r.create_image)] = "ok"
        IN /\ attempts' = [attempts EXCEPT ![instance.id] = @ \o r.create_image]
           /\ tag_outcome' = [tag_outcome EXCEPT ![instance.id] =
                                IF r.create_tags = <<>> THEN @ ELSE r.create_tags[1]]
           /\ calls' = [calls EXCEPT
                  !.create_image[instance.id] = @ + Len(r.create_image),
                  !.create_tags = @ + Len(r.create_tags)]
           /\ next_image' = IF created THEN next_image + 1 ELSE next_image
           /\ IF r.raised = "none"
              THEN /\ backup_results' = Append(backup_results, r.result)
                   /\ cursor' = cursor + 1
                   /\ pc' = pc
                   /\ UNCHANGED <<exception, raised_by>>
              ELSE /\ backup_results' = backup_results
                   /\ cursor' = cursor
                   /\ pc' = "crashed"
                   /\ exception' = r.raised
                   /\ raised_by' = r.raised_by
    /\ UNCHANGED <<provider, instances, initial_instances, protections, user_input,
                   prompts, terminate_results, last_response, displayed, env_changes, listings>>

\* backup_instances() line 214, main() lines 306-310
BackupInstancesReturn ==
    /\ pc = "backup"
    /\ cursor > Len(instances)
    /\ displayed' = displayed \cup display_data(backup_results, "backup_results")
    /\ prompts' = prompts \cup {"terminate"}
    /\ pc' = "prompt_terminate"
    /\ UNCHANGED <<provider, next_image, exception, raised_by, instances, initial_instances,
                   protections, user_input, cursor, backup_results, terminate_results,
                   calls, attempts, tag_outcome, last_response, env_changes, listings>>

\* main(), lines 310-314: the operator presses enter, terminate_instances starts
PressEnterTerminate ==
    /\ pc = "prompt_terminate"
    /\ pc' = "terminate"
    /\ cursor' = 1
    /\ terminate_results' = <<>>
    /\ UNCHANGED <<provider, next_image, exception, raised_by, instances, initial_instances,
                   protections, user_input, prompts, backup_results, calls, attempts,
                   tag_outcome, last_response, displayed, env_changes, listings>>

\* The status is True for every response that names an instance
TerminateStatus_any_state(response) ==
    /\ response.exc = "none"
    /\ Len(response.TerminatingInstances) > 0

\* terminate_instances(), lines 231-252: the status recorded for a response.
\* response['TerminatingInstances'][0] raises on an empty list and the
\* except clause records the initial status False.
TerminateStatus(response) ==
    /\ response.exc = "none"
    /\ Len(response.TerminatingInstances) > 0
    /\ response.TerminatingInstances[1] = "shutting-down"

\* terminate_instances(), line 230: the entries the loop visits
TerminateTargets(entries) == entries

\* An iteration whose terminate call raises lets the exception leave
\* terminate_instances
TerminateInstance_raises ==
    /\ pc = "terminate"
    /\ cursor <= Len(TerminateTargets(backup_results))
    /\ \E response \in TerminateResponses :
        LET instance == TerminateTargets(backup_results)[cursor]
            id == instance.instance_id
        IN /\ calls' = [calls EXCEPT !.terminate_instances[id] = @ + 1]
           /\ last_response' = response
           /\ provider' = IF TerminateStatus(response)
                          THEN [provider EXCEPT ![id].state = "shutting-down"]
                          ELSE provider
           /\ IF response.exc = "none"
              THEN /\ terminate_results' = Append(terminate_results,
                          [instance_id |-> id,
                           terminate_completed |-> TerminateStatus(response)])
                   /\ cursor' = cursor + 1
                   /\ UNCHANGED <<pc, exception, raised_by>>
              ELSE /\ pc' = "crashed"
                   /\ exception' = response.exc
                   /\ raised_by' = "terminate_instances"
                   /\ UNCHANGED <<terminate_results, cursor>>
    /\ UNCHANGED <<next_image, instances, initial_instances, protections,
                   user_input, prompts, backup_results, attempts, tag_outcome,
                   displayed, env_changes, listings>>

\* terminate_instances(), lines 230-252: one iteration of the loop
TerminateInstance ==
    /\ pc = "terminate"
    /\ cursor <= Len(TerminateTargets(backup_results))
    /\ \E response \in TerminateResponses :
        LET instance == TerminateTargets(backup_results)[cursor]
            id == instance.instance_id
        IN /\ calls' = [calls EXCEPT !.terminate_instances[id] = @ + 1]
           /\ last_response' = response
           /\ provider' = IF /\ response.exc = "none"
                             /\ Len(response.TerminatingInstances) > 0
                             /\ response.TerminatingInstances[1] = "shutting-down"
                          THEN [provider EXCEPT ![id].state = "shutting-down"]
                          ELSE provider
           /\ terminate_results' = Append(terminate_results,
                  [instance_id |-> id, terminate_completed |-> TerminateStatus(response)])
           /\ cursor' = cursor + 1
    /\ UNCHANGED <<next_image, pc, exception, raised_by, instances, initial_instances, protections,
                   user_input, prompts, backup_results, attempts, tag_outcome,
                   displayed, env_changes, listings>>

\* terminate_instances() line 253, main() lines 315-316
TerminateInstancesReturn ==
    /\ pc = "terminate"
    /\ cursor > Len(TerminateTargets(backup_results))
    /\ displayed' = displayed \cup display_data(terminate_results, "terminate_results")
    /\ pc' = "done"
    /\ UNCHANGED <<provider, next_image, exception, raised_by, instances, initial_instances,
                   protections, user_input, prompts, cursor, backup_results,
                   terminate_results, calls, attempts, tag_outcome, last_response,
                   env_changes, listings>>

\* Another actor changes the provider-side state of an instance between the
\* clear calls and the re-listing, the only later read of that state. (A
\* change made earlier, after the first listing, reaches the re-listing
\* either unchanged or overwritten by the clear calls.)
ProviderChange ==
    /\ pc = "relist"
    /\ env_changes < MaxEnvChanges
    /\ env_changes' = env_changes + 1
    /\ \E id \in Ids :
        \/ provider' = [provider EXCEPT ![id].termination = ~@]
        \/ provider' = [provider EXCEPT ![id].stop = ~@]
        \/ \E s \in LifecycleNext(provider[id].state) :
               provider' = [provider EXCEPT ![id].state = s]
    /\ UNCHANGED <<next_image, pc, exception, raised_by, instances, initial_instances, protections,
                   user_input, prompts, cursor, backup_results, terminate_results,
                   calls, attempts, tag_outcome, last_response, displayed, listings>>

Next ==
    \/ InitialListing
    \/ CheckProtections
    \/ AnswerProtectionPrompt
    \/ DisableInstanceProtections
    \/ Relisting
    \/ PressEnterBackup
    \/ CreateAmi
    \/ BackupInstancesReturn
    \/ PressEnterTerminate
    \/ TerminateInstance
    \/ TerminateInstancesReturn
    \/ ProviderChange

Spec == Init /\ [][Next]_vars

(***************************************************************************)
(* terminate_instances() called on its own with any list of backup         *)
(* outcomes, as its signature allows.                                      *)
(***************************************************************************)
BackupOutcomes ==
    {[instance_id |-> id, ami_id |-> 1, backup_completed |-> TRUE] : id \in Ids} \cup
    {[instance_id |-> id, ami_id |-> NoArtifact, backup_completed |-> FALSE] : id \in Ids}

InitTerminate ==
    /\ provider = [id \in Ids |-> [state |-> "running", termination |-> FALSE, stop |-> FALSE]]
    /\ next_image = 2
    /\ pc = "terminate"
    /\ exception = "none"
    /\ raised_by = "none"
    /\ instances = <<>>
    /\ initial_instances = <<>>
    /\ protections = FALSE
    /\ user_input = <<>>
    /\ prompts = {}
    /\ cursor = 1
    /\ backup_results \in SeqsUpTo(BackupOutcomes, MaxEntries)
    /\ terminate_results = <<>>
    /\ calls = NoCalls
    /\ attempts = [i \in Ids |-> <<>>]
    /\ tag_outcome = [i \in Ids |-> "not called"]
    /\ last_response = NoResponse
    /\ displayed = {}
    /\ env_changes = 0
    /\ listings = 0

NextTerminate ==
    \/ TerminateInstance
    \/ TerminateInstancesReturn

SpecTerminate == InitTerminate /\ [][NextTerminate]_vars

(***************************************************************************)
(* list_instances() called on any provider state, in any lifecycle state.  *)
(***************************************************************************)
AllLifecycle == {"pending", "running", "stopping", "stopped", "shutting-down", "terminated"}

InitListing ==
    /\ provider \in [Ids -> [state : AllLifecycle, termination : BOOLEAN, stop : BOOLEAN]]
    /\ next_image = 1
    /\ pc = "start"
    /\ exception = "none"
    /\ raised_by = "none"
    /\ instances = <<>>
    /\ initial_instances = <<>>
    /\ protections = FALSE
    /\ user_input = <<>>
    /\ prompts = {}
    /\ cursor = 1
    /\ backup_results = <<>>
    /\ terminate_results = <<>>
    /\ calls = NoCalls
    /\ attempts = [i \in Ids |-> <<>>]
    /\ tag_outcome = [i \in Ids |-> "not called"]
    /\ last_response = NoResponse
    /\ displayed = {}
    /\ env_changes = 0
    /\ listings = 0

NextListing ==
    \/ InitialListing

SpecListing == InitListing /\ [][NextListing]_vars

(***************************************************************************)
(* Properties                                                              *)
(***************************************************************************)
\* The entries of the backup outcomes that record a completed backup of id
CompletedBackups(id) ==
    {j \in 1..Len(backup_results) :
        backup_results[j].instance_id = id /\ backup_results[j].backup_completed}

\* C1: in a run of main(), every instance id a terminate_instances call was
\* issued for, and every instance id in the termination results, has a
\* backup outcome of the same run with backup_completed true.
C1_NoOrphanTermination ==
    /\ \A id \in Ids :
           calls.terminate_instances[id] > 0 => CompletedBackups(id) # {}
    /\ \A j \in 1..Len(terminate_results) :
           CompletedBackups(terminate_results[j].instance_id) # {}

\* C1 witness: a run that rejected a first create_image call has terminated
\* an instance
C1_Witness ==
    /\ pc = "done"
    /\ \E id \in Ids : calls.terminate_instances[id] > 0 /\ Len(attempts[id]) = 2
    /\ Len(terminate_results) > 0

\* C2: terminate_instances filters internally: whatever list of backup
\* outcomes it is given, it issues a terminate call, and produces a
\* termination outcome, only for the entries whose backup_completed is true.
C2_TerminationFiltersInternally ==
    /\ \A id \in Ids :
           calls.terminate_instances[id] <= Cardinality(CompletedBackups(id))
    /\ \A j \in 1..Len(terminate_results) :
           \E k \in 1..Len(backup_results) :
               /\ backup_results[k].instance_id = terminate_results[j].instance_id
               /\ backup_results[k].backup_completed
    /\ pc = "done" =>
           Len(terminate_results) =
               Cardinality({k \in 1..Len(backup_results) : backup_results[k].backup_completed})

\* Mutating provider calls issued so far in the run
MutatingCallCount(id) ==
    calls.modify_instance_attribute[id] + calls.create_image[id]
        + calls.terminate_instances[id] + calls.create_tags

\* The checkpoint of lines 281-296 has been answered
Answered == pc \notin {"start", "listed", "prompt_yn"}

\* C3: if the initial listing holds an instance with a protection flag set,
\* the yes/no prompt is shown before any mutating call; after any answer
\* other than y or Y the run has ended with no modify_instance_attribute,
\* create_image, create_tags or terminate_instances call issued, and every
\* protected instance is still protected.
C3_ProtectionGate ==
    AnyProtection(initial_instances) =>
        /\ pc \notin {"start", "listed"} => "yn" \in prompts
        /\ \A id \in Ids :
               MutatingCallCount(id) > 0 =>
                   "yn" \in prompts /\ user_input \in {<<"y">>, <<"Y">>}
        /\ (Answered /\ user_input \notin {<<"y">>, <<"Y">>}) =>
               /\ pc = "exited"
               /\ \A id \in Ids : MutatingCallCount(id) = 0
               /\ \A j \in 1..Len(initial_instances) :
                      LET rec == initial_instances[j] IN
                      /\ rec.termination_protection => provider[rec.id].termination
                      /\ rec.stop_protection => provider[rec.id].stop

\* C3 witness: a protected instance was listed and the operator typed "yes"
C3_Witness ==
    /\ pc = "exited"
    /\ AnyProtection(initial_instances)
    /\ user_input = <<"y", "e", "s">>

\* The Backup Stage has ended, by returning or by an exception
BackupEnded ==
    \/ pc \in {"prompt_terminate", "terminate", "done"}
    \/ pc = "crashed" /\ raised_by \in {"create_image", "create_ami", "create_tags"}

\* C4: for every list of N instances entering backup_instances and every
\* pattern of create_image rejections, backup_instances returns exactly N
\* outcomes, the i-th one referring to the i-th instance.
C4_OutcomeCompleteness ==
    (BackupEnded /\ \A id \in Ids : tag_outcome[id] # "ClientError") =>
        /\ Len(backup_results) = Len(instances)
        /\ \A j \in 1..Len(instances) : backup_results[j].instance_id = instances[j].id

\* C5: create_image is called once for an instance whose first call
\* succeeds and exactly twice for one whose first call is rejected, never a
\* third time; terminate_instances is called exactly once for every entry
\* the Termination Stage has processed, and at most once per instance id.
C5_RetryBound ==
    /\ \A id \in Ids :
           /\ calls.create_image[id] <= 2
           /\ calls.create_image[id] = Len(attempts[id])
           /\ (attempts[id] # <<>> /\ attempts[id][1] = "ok") => calls.create_image[id] = 1
           /\ (attempts[id] # <<>> /\ attempts[id][1] = "ClientError") => calls.create_image[id] = 2
           /\ calls.terminate_instances[id] <= 1
    /\ \A j \in 1..Len(terminate_results) :
           calls.terminate_instances[terminate_results[j].instance_id] = 1
    /\ pc \in {"terminate", "done"} => Len(terminate_results) = cursor - 1

\* C5 witness: an instance whose first create_image call was rejected and
\* whose only terminate call raised
C5_Witness ==
    \E id \in Ids :
        /\ attempts[id] = <<"ClientError", "ok">>
        /\ calls.terminate_instances[id] = 1
        /\ last_response.exc = "ClientError"
        /\ pc = "done"

\* C6: when create_image is rejected on both attempts for an instance,
\* create_ami returns an outcome for it with backup_completed false and the
\* explicit no-artifact value as ami_id; in a run with that single instance
\* no terminate call is issued and the termination results are empty.
C6_DoubleFailureRecorded ==
    \A id \in Ids :
        attempts[id] = <<"ClientError", "ClientError">> =>
            /\ pc # "crashed"
            /\ \E j \in 1..Len(backup_results) :
                   backup_results[j] = [instance_id |-> id, ami_id |-> NoArtifact,
                                        backup_completed |-> FALSE]
            /\ Len(instances) = 1 =>
                   /\ calls.terminate_instances[id] = 0
                   /\ terminate_results = <<>>

\* C7: a run that has passed the protection checkpoint and whose pacing
\* prompts are answered never ends in a create_image failure: it reaches
\* its normal end with create_image attempted for every instance of the
\* working set and both result tables printed.
C7_RunsToCompletion ==
    /\ ~(pc = "crashed" /\ raised_by \in {"create_image", "create_ami"})
    /\ (pc = "done" /\ instances # <<>>) =>
           /\ \A j \in 1..Len(instances) : attempts[instances[j].id] # <<>>
           /\ {"backup_results", "terminate_results"} \subseteq displayed

\* C8: the terminate_completed of the entry processed last is true exactly
\* when the terminate call returned without exception and the CurrentState
\* of the first returned instance is shutting-down.
C8_TerminationOutcomeValue ==
    (pc \in {"terminate", "done"} /\ terminate_results # <<>>) =>
        LET last == terminate_results[Len(terminate_results)]
            returned == last_response.TerminatingInstances
        IN last.terminate_completed <=>
               /\ last_response.exc = "none"
               /\ returned # <<>>
               /\ returned[1] = "shutting-down"

\* C8 witness: the backup succeeded, the terminate call returned the state
\* running and the outcome is false
C8_Witness ==
    /\ pc = "done"
    /\ last_response = [exc |-> "none", TerminatingInstances |-> <<"running">>]
    /\ terminate_results # <<>>
    /\ ~terminate_results[Len(terminate_results)].terminate_completed
    /\ backup_results[Len(backup_results)].backup_completed

\* C9: when a run that detected a protection flag reaches the Backup Stage,
\* no instance of the working set carries a protection flag.
C9_PostGuardInvariant ==
    (protections /\ pc = "backup") => ~AnyProtection(instances)

\* C10: when create_image succeeds and the create_tags call that follows is
\* rejected, create_ami still returns an outcome with backup_completed true
\* and the ami_id create_image returned, and the run goes on.
C10_TaggingFailureKeepsBackup ==
    \A id \in Ids :
        tag_outcome[id] = "ClientError" =>
            /\ pc # "crashed"
            /\ \E j \in 1..Len(backup_results) :
                   /\ backup_results[j].instance_id = id
                   /\ backup_results[j].backup_completed
                   /\ backup_results[j].ami_id \in 1..(next_image - 1)

\* C11: if the initial list_instances call returns no instance, the run ends
\* with no yes/no prompt, no pacing prompt, no second listing and no
\* modify_instance_attribute, create_image, create_tags or
\* terminate_instances call.
C11_EmptyInventory ==
    (listings >= 1 /\ pc # "crashed" /\ initial_instances = <<>>) =>
        /\ pc \in {"listed", "done"}
        /\ prompts = {}
        /\ listings = 1
        /\ calls = NoCalls
        /\ backup_results = <<>> /\ terminate_results = <<>>

\* C11 witness: the run has ended on an empty first listing
C11_Witness ==
    /\ pc = "done"
    /\ initial_instances = <<>>
    /\ listings = 1

\* The first listing succeeded, is not empty and holds no protection flag
InitiallyUnprotected ==
    /\ listings >= 1
    /\ initial_instances # <<>>
    /\ \A j \in 1..Len(initial_instances) :
           /\ ~initial_instances[j].termination_protection
           /\ ~initial_instances[j].stop_protection

\* C12: if the first listing is not empty and holds no protection flag, the
\* yes/no prompt is never shown, no modify_instance_attribute call is issued,
\* no re-listing happens and backup_instances works on exactly the instances
\* of the first listing, in listing order; the yes/no prompt is shown only
\* when the first listing holds a protection flag.
C12_UnprotectedSkipsGuard ==
    /\ InitiallyUnprotected =>
           /\ "yn" \notin prompts
           /\ \A id \in Ids : calls.modify_instance_attribute[id] = 0
           /\ listings = 1
           /\ instances = initial_instances
           /\ pc \notin {"prompt_yn", "clearing", "relist", "exited"}
           /\ Len(backup_results) <= Len(initial_instances)
           /\ \A j \in 1..Len(backup_results) :
                  backup_results[j].instance_id = initial_instances[j].id
           /\ pc = "prompt_terminate" => Len(backup_results) = Len(initial_instances)
    /\ "yn" \in prompts =>
           \E j \in 1..Len(initial_instances) :
               \/ initial_instances[j].termination_protection
               \/ initial_instances[j].stop_protection

\* C12 witness: two unprotected instances were listed and both backed up
C12_Witness ==
    /\ InitiallyUnprotected
    /\ Len(initial_instances) = 2
    /\ pc = "prompt_terminate"
    /\ Len(backup_results) = 2

\* C13: when describe_instances or a describe_instance_attribute call fails
\* during the first listing or the re-listing, the exception leaves
\* list_instances and main(), and the run issues no create_image,
\* create_tags or terminate_instances call.
C13_ListingErrorsAbort ==
    raised_by \in ReadCalls =>
        /\ pc = "crashed"
        /\ exception = "ClientError"
        /\ \A id \in Ids :
               calls.create_image[id] = 0 /\ calls.terminate_instances[id] = 0
        /\ calls.create_tags = 0
        /\ "backup" \notin prompts
        /\ backup_results = <<>> /\ terminate_results = <<>>

\* C13 witness: an attribute read failed during the re-listing, after the
\* clear calls
C13_Witness ==
    /\ pc = "crashed"
    /\ raised_by = "describe_instance_attribute"
    /\ listings = 2
    /\ \E id \in Ids : calls.modify_instance_attribute[id] = 2

\* Some call of the given kind has been issued
Issued(kind) == \E id \in Ids : calls[kind][id] > 0

\* Where the run stands, by what has happened so far
C14_Order ==
    /\ (prompts # {} \/ Issued("modify_instance_attribute")) => listings >= 1
    /\ Issued("modify_instance_attribute") =>
           "yn" \in prompts /\ pc \notin {"start", "listed", "prompt_yn"}
    /\ listings = 2 =>
           /\ pc \notin {"start", "listed", "prompt_yn", "clearing"}
           /\ \A j \in 1..Len(initial_instances) :
                  calls.modify_instance_attribute[initial_instances[j].id] = 2
    /\ "backup" \in prompts => (listings = 2 \/ "yn" \notin prompts)
    /\ (Issued("create_image") \/ calls.create_tags > 0) =>
           /\ "backup" \in prompts
           /\ pc \in {"backup", "prompt_terminate", "terminate", "done", "crashed"}
    /\ "terminate" \in prompts =>
           /\ "backup" \in prompts
           /\ Len(backup_results) = Len(instances)
           /\ \A j \in 1..Len(instances) : attempts[instances[j].id] # <<>>
    /\ Issued("terminate_instances") =>
           "terminate" \in prompts /\ pc \in {"terminate", "done"}

\* What a step may still do once a later stage has begun
C14_Step ==
    /\ ("backup" \in prompts \/ Issued("create_image")) =>
           /\ calls'.modify_instance_attribute = calls.modify_instance_attribute
           /\ listings' = listings
           /\ "yn" \in prompts' <=> "yn" \in prompts
    /\ ("terminate" \in prompts \/ Issued("terminate_instances")) =>
           /\ calls'.create_image = calls.create_image
           /\ calls'.create_tags = calls.create_tags
           /\ backup_results' = backup_results
    /\ prompts \subseteq prompts'

\* C14: in every run the events occur in the order list, (yes/no prompt,
\* clear calls, re-list), first pacing prompt, create_image and create_tags
\* calls, second pacing prompt, terminate_instances calls: no create_image
\* call precedes the first pacing prompt, no terminate_instances call
\* precedes the second pacing prompt or the end of the last backup attempt,
\* and no modify_instance_attribute call follows the first create_image call.
C14_OrchestratorOrdering == [](C14_Order) /\ [][C14_Step]_vars

\* C14 witness: a run that went through every stage has ended
C14_Witness ==
    /\ pc = "done"
    /\ listings = 2
    /\ prompts = {"yn", "backup", "terminate"}
    /\ Issued("modify_instance_attribute")
    /\ Issued("create_image")
    /\ Issued("terminate_instances")

\* The operator affirmed the yes/no prompt
OperatorAffirmed ==
    /\ "yn" \in prompts
    /\ pc \notin {"start", "listed", "prompt_yn"}
    /\ user_input \in {<<"y">>, <<"Y">>}

\* C15: when a protection flag is detected and the operator answers y or Y,
\* disable_instance_protections is invoked exactly once for every instance
\* of the first listing, protected or not, each invocation issuing the
\* termination-disable and the stop-disable call, all before the re-listing.
C15_UniformClearing ==
    OperatorAffirmed =>
        /\ \A id \in Ids : calls.modify_instance_attribute[id] <= 2
        /\ pc = "clearing" =>
               \A j \in 1..(cursor - 1) :
                   calls.modify_instance_attribute[initial_instances[j].id] = 2
        /\ pc # "clearing" =>
               \A j \in 1..Len(initial_instances) :
                   calls.modify_instance_attribute[initial_instances[j].id] = 2

\* C17: when modify_instance_attribute is rejected for one instance during
\* protection clearing, the clear calls for the remaining instances are
\* still issued and the run goes on to the re-listing.
C17_ClearRejectionDoesNotAbort ==
    raised_by = "modify_instance_attribute" =>
        /\ pc # "crashed"
        /\ pc # "clearing" =>
               /\ listings = 2
               /\ \A j \in 1..Len(initial_instances) :
                      calls.modify_instance_attribute[initial_instances[j].id] >= 1

\* C16: for any input list of M entries and any pattern of terminate call
\* failures, terminate_instances attempts the terminate call for every
\* entry and returns exactly M termination outcomes in input order.
C16_TerminationNonFatal ==
    /\ pc \in {"terminate", "done"}
    /\ pc = "terminate" =>
           /\ Len(terminate_results) = cursor - 1
           /\ cursor <= Len(backup_results) + 1
    /\ pc = "done" => Len(terminate_results) = Len(backup_results)
    /\ \A j \in 1..Len(terminate_results) :
           terminate_results[j].instance_id = backup_results[j].instance_id
    /\ \A id \in Ids :
           calls.terminate_instances[id] =
               Cardinality({j \in 1..Len(terminate_results) :
                                terminate_results[j].instance_id = id})

\* C16 witness: the terminate call of the first of two entries failed and
\* the second entry was still attempted, with success
C16_Witness ==
    /\ pc = "done"
    /\ Len(backup_results) = 2
    /\ Len(terminate_results) = 2
    /\ ~terminate_results[1].terminate_completed
    /\ terminate_results[2].terminate_completed
    /\ backup_results[1].instance_id # backup_results[2].instance_id

\* C18: over any number of result pages, list_instances returns exactly one
\* record for each instance of every page whose state is running, stopping
\* or stopped, none for an instance in another state, each record carrying
\* the state and the two protection flags read for that instance.
C18_ListingComplete ==
    pc = "listed" =>
        /\ \A id \in Ids :
               Cardinality({j \in 1..Len(instances) : instances[j].id = id}) =
                   IF provider[id].state \in {"running", "stopping", "stopped"} THEN 1 ELSE 0
        /\ \A j \in 1..Len(instances) :
               LET rec == instances[j] IN
               /\ rec.state = provider[rec.id].state
               /\ rec.termination_protection = provider[rec.id].termination
               /\ rec.stop_protection = provider[rec.id].stop
        /\ \A j \in 1..Len(instances), k \in 1..Len(instances) :
               j < k => instances[j].id < instances[k].id

\* C18 witness: a stopping instance with stop protection is listed and a
\* terminated one is dropped
C18_Witness ==
    /\ pc = "listed"
    /\ Len(instances) = 1
    /\ instances[1].state = "stopping"
    /\ instances[1].stop_protection
    /\ \E id \in Ids : provider[id].state = "terminated"

\* The ids of the records of a listing
ListedIds(insts) == {insts[j].id : j \in 1..Len(insts)}

\* Every mutating call issued so far targets a selected instance
C19_Targets ==
    /\ \A j \in 1..Len(initial_instances) :
           initial_instances[j].state \in {"running", "stopping", "stopped"}
    /\ \A j \in 1..Len(instances) :
           instances[j].state \in {"running", "stopping", "stopped"}
    /\ \A id \in Ids :
           /\ calls.modify_instance_attribute[id] > 0 => id \in ListedIds(initial_instances)
           /\ calls.create_image[id] > 0 => id \in ListedIds(instances)
           /\ calls.terminate_instances[id] > 0 =>
                  /\ id \in ListedIds(instances)
                  /\ \E j \in 1..Len(backup_results) : backup_results[j].instance_id = id

\* A list_instances call changes nothing at the provider
C19_ListingReadsOnly ==
    listings' # listings =>
        /\ calls' = calls
        /\ provider' = provider
        /\ next_image' = next_image

\* C19: list_instances issues only read calls, and every
\* modify_instance_attribute, create_image and terminate_instances call
\* targets an instance id that a list_instances call of the same run
\* returned in state running, stopping or stopped: clear calls only ids of
\* the first listing, create_image only ids of the working set, terminate
\* only ids of the backup outcomes.
C19_MutationsConfined == [](C19_Targets) /\ [][C19_ListingReadsOnly]_vars

\* C19 witness: an instance matching the tags was never selected and the
\* run ended with calls on the other one only
C19_Witness ==
    /\ pc = "done"
    /\ provider[1].state = "pending"
    /\ calls.modify_instance_attribute[2] > 0
    /\ calls.create_image[2] > 0
    /\ calls.terminate_instances[2] > 0
    /\ calls.modify_instance_attribute[1] = 0
    /\ calls.create_image[1] = 0
    /\ calls.terminate_instances[1] = 0

\* The working set is what the provider holds after the clear calls
C20_WorkingSet ==
    (listings = 2 /\ pc \in {"prompt_backup", "backup"}) =>
        /\ protections
        /\ \A id \in Ids :
               Cardinality({j \in 1..Len(instances) : instances[j].id = id}) =
                   IF provider[id].state \in {"running", "stopping", "stopped"} THEN 1 ELSE 0
        /\ \A j \in 1..Len(instances) :
               LET rec == instances[j] IN
               /\ rec.state = provider[rec.id].state
               /\ rec.termination_protection = provider[rec.id].termination
               /\ rec.stop_protection = provider[rec.id].stop
        /\ \A j \in 1..Len(backup_results) :
               backup_results[j].instance_id = instances[j].id

\* After the re-listing there is no second scan and no second yes/no prompt
C20_NoSecondScan ==
    listings = 2 =>
        /\ protections' = protections
        /\ user_input' = user_input
        /\ pc' \notin {"listed", "prompt_yn", "clearing", "exited"}
        /\ pc \in {"prompt_backup", "backup", "prompt_terminate", "terminate"} =>
               instances' = instances

\* C20: in a run where protections were detected and the operator affirmed,
\* the list handed to backup_instances is exactly the result of the second
\* list_instances call, made after all clear calls, not the first listing;
\* the scan and the yes/no prompt happen once, on the first listing only.
C20_WorkingSetIsRelisting == [](C20_WorkingSet) /\ [][C20_NoSecondScan]_vars

\* C20 witness: an instance that first appears in the second listing, with
\* a protection flag set, has been backed up and a terminate call issued
C20_Witness ==
    /\ pc = "done"
    /\ listings = 2
    /\ \E j \in 1..Len(instances) :
           /\ instances[j].id \notin {initial_instances[k].id : k \in 1..Len(initial_instances)}
           /\ instances[j].termination_protection \/ instances[j].stop_protection
           /\ calls.create_image[instances[j].id] > 0
           /\ calls.terminate_instances[instances[j].id] > 0

====
